---------------------------- MODULE Spec2Model ----------------------------
(***************************************************************************)
(* Model of the mindshare prediction-market oracle: the pure commitment    *)
(* builder of utils.ts (determineWinner, hashJson, generateBlobHash), the  *)
(* cached contract-address table of config.ts (getContracts) and the      *)
(* batch driver processMarkets with createResolution, computeMarketId and  *)
(* postResolution.  Every await of the driver is one step of the model.    *)
(***************************************************************************)
EXTENDS Integers, Sequences, FiniteSets, TLC

VARIABLES
    pc,                  \* position of the running call
    privateKey,          \* config.privateKey ("" when PRIVATE_KEY is not set)
    cachedContracts,     \* module-level cachedContracts of config.ts
    leaderboardSnapshot, \* processMarkets: const leaderboardSnapshot
    markets,             \* processMarkets: const markets (marketId is mutated in place)
    blockTimestamp,      \* processMarkets: const blockTimestamp
    cur,                 \* index of the market the for-loop is at
    processed,           \* processMarkets: let processed
    skipped,             \* processMarkets: let skipped
    resolution,          \* createResolution / postResolution: resolution
    oracleAddress,       \* createResolution: oracleAddress; postResolution: oracle target
    signature,           \* createResolution: signature
    error,               \* message of the error that left processMarkets ("" if none)
    summary,             \* the end-of-run summary line, <<>> until it is printed
    outcome,             \* per market: how its loop iteration ended
    resolutions,         \* log: Resolution objects built (createResolution line 161)
    signatures,          \* log: signMessage calls
    posts,               \* log: oracle.post calls
    confirmed,           \* log: tx.wait() confirmations
    idCalls,             \* log: factory.computeMarketId calls
    notReady,            \* log: markets reported "Market not ready yet" by the gate
    caught,              \* per market: message of the error its catch block received
    dw,                  \* result of a direct determineWinner call
    calls,               \* log: the awaited calls in the order they were started
    exitCode,            \* main: the status the process exited with, NoExit before
    gc,                  \* result of a direct getContracts call
    blobArgs,            \* arguments of a direct generateBlobHash call
    blobOut              \* result of a direct generateBlobHash call

vars == <<pc, privateKey, cachedContracts, leaderboardSnapshot, markets,
          blockTimestamp, cur, processed, skipped, resolution, oracleAddress,
          signature, error, summary, outcome, resolutions, signatures, posts,
          confirmed, idCalls, notReady, caught, dw, calls, exitCode, gc,
          blobArgs, blobOut>>

\* the variables processMarkets does not touch
others == <<exitCode, gc, blobArgs, blobOut>>

---------------------------------------------------------------------------
(* Bounds of the model *)

MaxMarkets == 2       \* longest market list returned by loadMarkets
MaxChainTime == 2     \* chain times range over 1..MaxChainTime
MaxBoard == 12        \* largest leaderboard of the determineWinner inputs

---------------------------------------------------------------------------
(* Strings *)

\* String.prototype.includes
Includes(s, sub) ==
    \E k \in 1..(Len(s) - Len(sub) + 1) : SubSeq(s, k, k + Len(sub) - 1) = sub

RECURSIVE Join(_, _)
\* Array.prototype.join over a sequence of strings
Join(ss, sep) ==
    IF Len(ss) = 0 THEN ""
    ELSE IF Len(ss) = 1 THEN ss[1]
    ELSE ss[1] \o sep \o Join(Tail(ss), sep)

\* JSON.stringify of one Project, in the field order of the interface
ProjectJson(p) ==
    "{\"name\":\"" \o p.name \o "\",\"rank\":" \o ToString(p.rank)
        \o ",\"score\":" \o ToString(p.score)
        \o ",\"logo\":\"" \o p.logo \o "\"}"

\* JSON.stringify(randomizedLeaderboard)
JSONstringify(lb) ==
    "[" \o Join([k \in 1..Len(lb) |-> ProjectJson(lb[k])], ",") \o "]"

\* ethers.keccak256: a collision-free digest of its preimage
keccak256(bytes) == <<"keccak256", bytes>>

hashJson(json) == keccak256(json)

---------------------------------------------------------------------------
(* utils.ts: determineWinner *)

\* FindIndex falling back to the first entry when the name is absent
FindIndex_first(lb, name) ==
    IF \E k \in 1..Len(lb) : lb[k].name = name
    THEN CHOOSE k \in 1..Len(lb) :
            /\ lb[k].name = name
            /\ \A j \in 1..(k - 1) : lb[j].name # name
    ELSE 1

\* Array.prototype.find by name: the first entry with that name, 0 if none
FindIndex(lb, name) ==
    IF \E k \in 1..Len(lb) : lb[k].name = name
    THEN CHOOSE k \in 1..Len(lb) :
            /\ lb[k].name = name
            /\ \A j \in 1..(k - 1) : lb[j].name # name
    ELSE 0

Top10Threshold == 10

NoHash == <<"none", "">>

Thrown(msg) == [ok |-> FALSE, winner |-> 0, snapshotHash |-> NoHash, message |-> msg]

Returned(w, h) == [ok |-> TRUE, winner |-> w, snapshotHash |-> h, message |-> ""]

\* Top10Winner with a strict comparison
Top10Winner_lt(rank) == IF rank < Top10Threshold THEN 1 ELSE 2

\* line 59: winner of a threshold market from the subject's rank
Top10Winner(rank) == IF rank <= Top10Threshold THEN 1 ELSE 2

\* H2HWinner with the comparison reversed
H2HWinner_swapped(rankA, rankB) == IF rankA > rankB THEN 1 ELSE 2

\* H2HWinner that gives a tie to subject A
H2HWinner_le(rankA, rankB) == IF rankA <= rankB THEN 1 ELSE 2

\* line 76: winner of a head-to-head market from the two ranks
H2HWinner(rankA, rankB) == IF rankA < rankB THEN 1 ELSE 2

\* determineWinner hashing only the first ten entries of the leaderboard
determineWinner_top10(market, randomizedLeaderboard) ==
    LET top == SubSeq(randomizedLeaderboard, 1,
                      IF Len(randomizedLeaderboard) < 10
                      THEN Len(randomizedLeaderboard) ELSE 10)
        snapshotHash == hashJson(JSONstringify(top))
    IN  IF market.type = "top10" THEN
            LET k == FindIndex(randomizedLeaderboard, market.projectName)
            IN  IF k = 0
                THEN Thrown("Project " \o market.projectName \o " not found in leaderboard")
                ELSE Returned(Top10Winner(randomizedLeaderboard[k].rank), snapshotHash)
        ELSE IF market.type = "h2h" THEN
            LET a == FindIndex(randomizedLeaderboard, market.projectA)
                b == FindIndex(randomizedLeaderboard, market.projectB)
            IN  IF a = 0 \/ b = 0
                THEN Thrown("Projects not found: " \o market.projectA \o " or " \o market.projectB)
                ELSE Returned(H2HWinner(randomizedLeaderboard[a].rank,
                                        randomizedLeaderboard[b].rank),
                              snapshotHash)
        ELSE Thrown("Unknown market type: " \o market.type)

determineWinner(market, randomizedLeaderboard) ==
    LET snapshotJson == JSONstringify(randomizedLeaderboard)
        snapshotHash == hashJson(snapshotJson)
    IN  IF market.type = "top10" THEN
            LET k == FindIndex(randomizedLeaderboard, market.projectName)
            IN  IF k = 0
                THEN Thrown("Project " \o market.projectName \o " not found in leaderboard")
                ELSE Returned(Top10Winner(randomizedLeaderboard[k].rank), snapshotHash)
        ELSE IF market.type = "h2h" THEN
            LET a == FindIndex(randomizedLeaderboard, market.projectA)
                b == FindIndex(randomizedLeaderboard, market.projectB)
            IN  IF a = 0 \/ b = 0
                THEN Thrown("Projects not found: " \o market.projectA \o " or " \o market.projectB)
                ELSE Returned(H2HWinner(randomizedLeaderboard[a].rank,
                                        randomizedLeaderboard[b].rank),
                              snapshotHash)
        ELSE Thrown("Unknown market type: " \o market.type)

---------------------------------------------------------------------------
(* utils.ts: generateBlobHash *)

ResolveTypeString ==
    "Resolve(bytes32 marketId,uint8 winner,bytes32 snapshotHash,uint64 resolvedAt,uint64 challengeUntil,uint256 nonce,address this)"

\* AbiCoder.encode of the eight static fields: one word per field, in order
AbiEncode(values) == <<"abi", values>>

\* generateBlobHash that leaves the verifying address out of the encoding
generateBlobHash_noaddr(marketId, winner, snapshotHash, resolvedAt, challengeUntil, nonce, oracle) ==
    LET typeHash == keccak256(ResolveTypeString)
    IN  keccak256(AbiEncode(<<typeHash, marketId, winner, snapshotHash,
                              resolvedAt, challengeUntil, nonce>>))

generateBlobHash(marketId, winner, snapshotHash, resolvedAt, challengeUntil, nonce, oracle) ==
    LET typeHash == keccak256(ResolveTypeString)
    IN  keccak256(AbiEncode(<<typeHash, marketId, winner, snapshotHash,
                              resolvedAt, challengeUntil, nonce, oracle>>))

---------------------------------------------------------------------------
(* config.ts: the cached contract-address table and getContracts *)

NullContracts == [null |-> TRUE]

Table(o, f, s) == [null |-> FALSE, settlementOracle |-> o, marketFactory |-> f, stakeToken |-> s]

\* config/contracts.json, the local fallback
LocalContracts == Table("0xO1", "0xF1", "0xS1")

RECURSIVE ApplyEntries(_, _)
\* the for-loop of getContracts over the entries of the remote response
ApplyEntries(contractsMap, data) ==
    IF Len(data) = 0 THEN contractsMap
    ELSE LET entry == Head(data)
             m1 == IF entry.type = "settlementOracle"
                   THEN [contractsMap EXCEPT !.settlementOracle = entry.address] ELSE contractsMap
             m2 == IF entry.type = "marketFactory"
                   THEN [m1 EXCEPT !.marketFactory = entry.address] ELSE m1
             m3 == IF entry.type = "stakeToken"
                   THEN [m2 EXCEPT !.stakeToken = entry.address] ELSE m2
         IN  ApplyEntries(m3, Tail(data))

\* getContracts that goes back to config/contracts.json when the fetch fails
getContracts_reset(cached, f) ==
    IF f.kind = "ok" THEN
        LET start == IF cached = NullContracts THEN Table("", "", "") ELSE cached
            contractsMap == ApplyEntries(start, f.data)
        IN  IF /\ contractsMap.settlementOracle # ""
               /\ contractsMap.marketFactory # ""
               /\ contractsMap.stakeToken # ""
            THEN contractsMap
            ELSE cached
    ELSE LocalContracts

\* getContracts that stores the merged table without the check of line 58
getContracts_partial(cached, f) ==
    IF f.kind = "ok" THEN
        LET start == IF cached = NullContracts THEN Table("", "", "") ELSE cached
        IN  ApplyEntries(start, f.data)
    ELSE cached

\* the value of cachedContracts after one getContracts call whose fetch ended
\* as f (f.kind: "throw", "notok" or "ok" with the body f.data)
getContracts(cached, f) ==
    IF f.kind = "ok" THEN
        LET start == IF cached = NullContracts THEN Table("", "", "") ELSE cached
            contractsMap == ApplyEntries(start, f.data)
        IN  IF /\ contractsMap.settlementOracle # ""
               /\ contractsMap.marketFactory # ""
               /\ contractsMap.stakeToken # ""
            THEN contractsMap
            ELSE cached
    ELSE cached

ContractsNotConfigured == "Contract addresses not configured"

\* bodies the backend's /api/contracts answers with during a run
RemoteResponses ==
    { <<>>,
      <<[type |-> "settlementOracle", address |-> "0xO2"]>> }

FetchOutcomes ==
    { [kind |-> "throw", data |-> <<>>], [kind |-> "notok", data |-> <<>>] }
        \cup { [kind |-> "ok", data |-> d] : d \in RemoteResponses }

PrivateKeyNotSet == "PRIVATE_KEY not set in environment variables"

---------------------------------------------------------------------------
(* Inputs of a run *)

ProjectName(k) == "P" \o ToString(k)

\* a leaderboard of n entries in rank order (rank = index, as
\* randomizeLeaderboard leaves it), the names rotated by shift
Board(n, shift) ==
    [p \in 1..n |-> [name |-> ProjectName(((p + shift - 1) % n) + 1),
                     rank |-> p,
                     score |-> 100 - p,
                     logo |-> ""]]

\* snapshots /api/leaderboard/today answers with
Snapshots == { Board(12, 0), Board(12, 4) }

ChainTimes == 1..MaxChainTime

Top10Market(name, resolveTime, qh, id) ==
    [type |-> "top10", projectName |-> name, projectA |-> "", projectB |-> "",
     lockTime |-> 0, resolveTime |-> resolveTime, questionHash |-> qh, marketId |-> id]

H2HMarket(a, b, resolveTime, qh, id) ==
    [type |-> "h2h", projectName |-> "", projectA |-> a, projectB |-> b,
     lockTime |-> 0, resolveTime |-> resolveTime, questionHash |-> qh, marketId |-> id]

\* market definitions /api/markets may list
MarketPool ==
    { Top10Market("P10", 1, "0xq1", ""),
      Top10Market("P11", 2, "0xq2", "0xm2"),
      H2HMarket("P3", "P7", 1, "0xq3", ""),
      Top10Market("Ghost", 1, "0xq4", "0xm4"),
      Top10Market("Lifetime", 2, "0xq5", ""),
      H2HMarket("P7", "Ghost", 1, "0xq6", "0xm6"),
      Top10Market("P1", MaxChainTime + 1, "0xq7", "") }

MarketLists == UNION { [1..n -> MarketPool] : n \in 0..MaxMarkets }

\* messages of the errors the chain collaborators raise
ChainErrors ==
    { "execution reverted: unauthorized signer",
      "execution reverted: resolve time not reached" }

\* factory.computeMarketId(questionHash, lockTime)
FactoryComputeMarketId(questionHash, lockTime) ==
    "id(" \o questionHash \o "," \o ToString(lockTime) \o ")"

\* signer.signMessage(bytes): EIP-191 signature of the blob under the key
signMessage(key, blob) == <<"sig", key, blob>>

NoResolution ==
    [marketId |-> "", winner |-> 0, snapshotHash |-> NoHash,
     resolvedAt |-> 0, challengeUntil |-> 0, nonce |-> 0]

NoResult == [ok |-> FALSE, winner |-> 0, snapshotHash |-> NoHash, message |-> "not called"]

---------------------------------------------------------------------------
(* oracle.ts: processMarkets and the functions it awaits *)

\* an awaited call of the driver, for market k (0 outside the loop)
Call(op, k) == [op |-> op, market |-> k, done |-> FALSE]

\* the call awaited last has completed
Done(cs) == IF Len(cs) = 0 THEN cs ELSE [cs EXCEPT ![Len(cs)].done = TRUE]

\* a call is started and awaited
Start(cs, op, k) == Append(cs, Call(op, k))

NoExit == -1

NoTable == [ok |-> FALSE, table |-> NullContracts, message |-> "not called"]

Init ==
    /\ pc = "loadLeaderboardSnapshot"
    /\ privateKey \in {"", "0xkey"}
    /\ cachedContracts = LocalContracts
    /\ leaderboardSnapshot = <<>>
    /\ markets = <<>>
    /\ blockTimestamp = 0
    /\ cur = 0
    /\ processed = 0
    /\ skipped = 0
    /\ resolution = NoResolution
    /\ oracleAddress = ""
    /\ signature = <<>>
    /\ error = ""
    /\ summary = <<>>
    /\ outcome = <<>>
    /\ resolutions = <<>>
    /\ signatures = <<>>
    /\ posts = <<>>
    /\ confirmed = <<>>
    /\ idCalls = <<>>
    /\ notReady = <<>>
    /\ caught = <<>>
    /\ dw = NoResult
    /\ calls = <<Call("loadLeaderboardSnapshot", 0)>>
    /\ exitCode = NoExit
    /\ gc = NoTable
    /\ blobArgs = <<>>
    /\ blobOut = <<>>

\* an error leaves processMarkets (thrown outside the loop, or re-thrown by
\* the catch block)
Raise(msg) ==
    /\ pc' = "threw"
    /\ error' = msg

\* NotReadyYet with a non-strict comparison
NotReadyYet_le(timestamp, market) == timestamp <= market.resolveTime

\* NotReadyYet with the gate switched off
NotReadyYet_off(timestamp, market) == FALSE

\* line 272: the time gate
\* NotReadyYet that compares with the lock time
NotReadyYet_lock(timestamp, market) == timestamp < market.lockTime

NotReadyYet(timestamp, market) == timestamp < market.resolveTime

\* IsTimeError that downgrades no error
IsTimeError_never(msg) == FALSE

\* IsTimeError that downgrades every error
IsTimeError_always(msg) == TRUE

\* line 313: the error message counts as "not ready"
IsTimeError(msg) == Includes(msg, "time")

\* Catch that continues after a time-related error without skipped++
Catch_nocount(msg) ==
    /\ caught' = [caught EXCEPT ![cur] = msg]
    /\ calls' = Done(calls)
    /\ IF IsTimeError(msg)
       THEN /\ skipped' = skipped
            /\ outcome' = [outcome EXCEPT ![cur] = "SKIPPED"]
            /\ cur' = cur + 1
            /\ pc' = "loop"
            /\ error' = error
       ELSE /\ Raise(msg)
            /\ outcome' = [outcome EXCEPT ![cur] = "FAILED"]
            /\ UNCHANGED <<skipped, cur>>

\* the catch block of the for-loop, entered with an Error of message msg
Catch(msg) ==
    /\ caught' = [caught EXCEPT ![cur] = msg]
    /\ calls' = Done(calls)
    /\ IF IsTimeError(msg)
       THEN /\ skipped' = skipped + 1
            /\ outcome' = [outcome EXCEPT ![cur] = "SKIPPED"]
            /\ cur' = cur + 1
            /\ pc' = "loop"
            /\ error' = error
       ELSE /\ Raise(msg)
            /\ outcome' = [outcome EXCEPT ![cur] = "FAILED"]
            /\ UNCHANGED <<skipped, cur>>

MarketIdNotSet(market) == "Market ID not set for market: " \o market.questionHash

\* MarketIdMissing with the guard of createResolution removed
MarketIdMissing_off(market) == FALSE

\* line 147: createResolution's guard, !market.marketId
MarketIdMissing(market) == market.marketId = ""

\* NeedsMarketId that recomputes the id of every market
NeedsMarketId_always(market) == TRUE

\* line 288: processMarkets' test, !market.marketId
NeedsMarketId(market) == market.marketId = ""

\* BuildResolution with a nonce that is not the timestamp
BuildResolution_nonce(market, win, timestamp) ==
    [marketId |-> market.marketId,
     winner |-> win.winner,
     snapshotHash |-> win.snapshotHash,
     resolvedAt |-> timestamp,
     challengeUntil |-> 0,
     nonce |-> timestamp + 1]

\* lines 157-168: the Resolution built from the winner and the block timestamp
BuildResolution(market, win, timestamp) ==
    LET resolvedAt == timestamp
        challengeUntil == 0
        nonce == resolvedAt
    IN  [marketId |-> market.marketId,
         winner |-> win.winner,
         snapshotHash |-> win.snapshotHash,
         resolvedAt |-> resolvedAt,
         challengeUntil |-> challengeUntil,
         nonce |-> nonce]

\* createResolution up to its first await, for the market definition m
EnterCreateResolution(m) ==
    IF MarketIdMissing(m)
    THEN /\ Catch(MarketIdNotSet(m))
         /\ UNCHANGED <<resolution, resolutions>>
    ELSE LET r == determineWinner(m, leaderboardSnapshot)
         IN  IF ~r.ok
             THEN /\ Catch(r.message)
                  /\ UNCHANGED <<resolution, resolutions>>
             ELSE LET res == BuildResolution(m, r, blockTimestamp)
                  IN  /\ resolution' = res
                      /\ resolutions' = Append(resolutions, [market |-> cur, resolution |-> res])
                      /\ pc' = "createResolution_getContracts"
                      /\ calls' = Start(Done(calls), "getContracts", cur)
                      /\ UNCHANGED <<skipped, cur, outcome, error, caught>>

\* await loadLeaderboardSnapshot()
LoadLeaderboardSnapshot ==
    /\ pc = "loadLeaderboardSnapshot"
    /\ \/ \E lb \in Snapshots :
            /\ leaderboardSnapshot' = lb
            /\ pc' = "loadMarkets"
            /\ calls' = Start(Done(calls), "loadMarkets", 0)
            /\ error' = error
       \/ /\ Raise("Failed to load leaderboard: Internal Server Error")
          /\ calls' = Done(calls)
          /\ UNCHANGED leaderboardSnapshot
    /\ UNCHANGED <<privateKey, cachedContracts, markets, blockTimestamp, cur,
                   processed, skipped, resolution, oracleAddress, signature,
                   summary, outcome, resolutions, signatures, posts, confirmed,
                   idCalls, notReady, caught, dw, others>>

\* await loadMarkets(), and the empty-list return
LoadMarkets ==
    /\ pc = "loadMarkets"
    /\ \/ \E ms \in MarketLists :
            /\ markets' = ms
            /\ outcome' = [k \in 1..Len(ms) |-> "PENDING"]
            /\ caught' = [k \in 1..Len(ms) |-> ""]
            /\ pc' = IF Len(ms) = 0 THEN "returned" ELSE "getBlock"
            /\ calls' = IF Len(ms) > 0 /\ privateKey # ""
                         THEN Start(Done(calls), "getBlock", 0)
                         ELSE Done(calls)
            /\ error' = error
       \/ /\ Raise("Failed to load markets: Internal Server Error")
          /\ calls' = Done(calls)
          /\ UNCHANGED <<markets, outcome, caught>>
    /\ UNCHANGED <<privateKey, cachedContracts, leaderboardSnapshot,
                   blockTimestamp, cur, processed, skipped, resolution,
                   oracleAddress, signature, summary, resolutions, signatures,
                   posts, confirmed, idCalls, notReady, dw, others>>

\* getSigner().provider, await provider.getBlock("latest"), the counters
GetBlock ==
    /\ pc = "getBlock"
    /\ calls' = Done(calls)
    /\ IF privateKey = ""
       THEN /\ Raise(PrivateKeyNotSet)
            /\ UNCHANGED <<blockTimestamp, cur, processed, skipped>>
       ELSE \/ \E t \in ChainTimes :
                 /\ blockTimestamp' = t
                 /\ processed' = 0
                 /\ skipped' = 0
                 /\ cur' = 1
                 /\ pc' = "loop"
                 /\ error' = error
            \/ /\ Raise("could not detect network")
               /\ UNCHANGED <<blockTimestamp, cur, processed, skipped>>
    /\ UNCHANGED <<privateKey, cachedContracts, leaderboardSnapshot, markets,
                   resolution, oracleAddress, signature, summary, outcome,
                   resolutions, signatures, posts, confirmed, idCalls,
                   notReady, caught, dw, others>>

\* the head of one loop iteration: the time gate, then the synchronous code
\* up to the first await; after the last market, the summary
LoopHead ==
    /\ pc = "loop"
    /\ IF cur > Len(markets)
       THEN /\ summary' = <<processed, skipped>>
            /\ pc' = "returned"
            /\ UNCHANGED <<cur, skipped, outcome, error, resolution,
                           resolutions, notReady, caught, calls>>
       ELSE LET market == markets[cur]
            IN  IF NotReadyYet(blockTimestamp, market)
                THEN /\ notReady' = Append(notReady, cur)
                     /\ skipped' = skipped + 1
                     /\ outcome' = [outcome EXCEPT ![cur] = "SKIPPED"]
                     /\ cur' = cur + 1
                     /\ pc' = "loop"
                     /\ UNCHANGED <<summary, error, resolution, resolutions, caught,
                                    calls>>
                ELSE IF NeedsMarketId(market)
                THEN /\ pc' = "computeMarketId_getContracts"
                     /\ calls' = Start(calls, "getContracts", cur)
                     /\ UNCHANGED <<summary, cur, skipped, outcome, error,
                                    resolution, resolutions, notReady, caught>>
                ELSE /\ EnterCreateResolution(market)
                     /\ UNCHANGED <<summary, notReady>>
    /\ UNCHANGED <<privateKey, cachedContracts, leaderboardSnapshot, markets,
                   blockTimestamp, processed, oracleAddress, signature,
                   signatures, posts, confirmed, idCalls, dw, others>>

\* computeMarketId: await getContracts(), then the factory call is sent
ComputeMarketId_getContracts ==
    /\ pc = "computeMarketId_getContracts"
    /\ \E f \in FetchOutcomes :
        LET contracts == getContracts(cachedContracts, f)
        IN  /\ cachedContracts' = contracts
            /\ IF contracts = NullContracts
               THEN /\ Catch(ContractsNotConfigured)
                    /\ UNCHANGED idCalls
               ELSE /\ idCalls' = Append(idCalls, [market |-> cur,
                                                   factory |-> contracts.marketFactory])
                    /\ pc' = "computeMarketId_call"
                    /\ calls' = Start(Done(calls), "computeMarketId", cur)
                    /\ UNCHANGED <<skipped, cur, outcome, error, caught>>
    /\ UNCHANGED <<privateKey, leaderboardSnapshot, markets, blockTimestamp,
                   processed, resolution, oracleAddress, signature, summary,
                   resolutions, signatures, posts, confirmed, notReady, dw, others>>

\* await factory.computeMarketId(...): the id is stored on the market, then
\* createResolution starts
ComputeMarketId_call ==
    /\ pc = "computeMarketId_call"
    /\ \/ LET id == FactoryComputeMarketId(markets[cur].questionHash, markets[cur].lockTime)
              market == [markets[cur] EXCEPT !.marketId = id]
          IN  /\ markets' = [markets EXCEPT ![cur] = market]
              /\ EnterCreateResolution(market)
       \/ \E msg \in ChainErrors :
            /\ Catch(msg)
            /\ UNCHANGED <<markets, resolution, resolutions>>
    /\ UNCHANGED <<privateKey, cachedContracts, leaderboardSnapshot,
                   blockTimestamp, processed, oracleAddress, signature, summary,
                   signatures, posts, confirmed, idCalls, notReady, dw, others>>

\* createResolution: await getContracts(), generateBlobHash, signMessage starts
CreateResolution_getContracts ==
    /\ pc = "createResolution_getContracts"
    /\ \E f \in FetchOutcomes :
        LET contracts == getContracts(cachedContracts, f)
        IN  /\ cachedContracts' = contracts
            /\ IF contracts = NullContracts
               THEN /\ Catch(ContractsNotConfigured)
                    /\ UNCHANGED oracleAddress
               ELSE /\ oracleAddress' = contracts.settlementOracle
                    /\ pc' = "createResolution_sign"
                    /\ calls' = Start(Done(calls), "signMessage", cur)
                    /\ UNCHANGED <<skipped, cur, outcome, error, caught>>
    /\ UNCHANGED <<privateKey, leaderboardSnapshot, markets, blockTimestamp,
                   processed, resolution, signature, summary, resolutions,
                   signatures, posts, confirmed, idCalls, notReady, dw, others>>

\* await signer.signMessage(blob); createResolution returns and
\* postResolution runs up to its await getContracts()
CreateResolution_sign ==
    /\ pc = "createResolution_sign"
    /\ LET blob == generateBlobHash(resolution.marketId, resolution.winner,
                                    resolution.snapshotHash, resolution.resolvedAt,
                                    resolution.challengeUntil, resolution.nonce,
                                    oracleAddress)
           sig == signMessage(privateKey, blob)
       IN  /\ signature' = sig
           /\ signatures' = Append(signatures, [market |-> cur, blob |-> blob,
                                                oracle |-> oracleAddress,
                                                signature |-> sig])
    /\ pc' = "postResolution_getContracts"
    /\ calls' = Start(Done(calls), "getContracts", cur)
    /\ UNCHANGED <<privateKey, cachedContracts, leaderboardSnapshot, markets,
                   blockTimestamp, cur, processed, skipped, resolution,
                   oracleAddress, error, summary, outcome, resolutions, posts,
                   confirmed, idCalls, notReady, caught, dw, others>>

\* postResolution: await getContracts(), then oracle.post is sent
PostResolution_getContracts ==
    /\ pc = "postResolution_getContracts"
    /\ \E f \in FetchOutcomes :
        LET contracts == getContracts(cachedContracts, f)
        IN  /\ cachedContracts' = contracts
            /\ IF contracts = NullContracts
               THEN /\ Catch(ContractsNotConfigured)
                    /\ UNCHANGED posts
               ELSE /\ posts' = Append(posts, [market |-> cur,
                                               to |-> contracts.settlementOracle,
                                               resolution |-> resolution,
                                               signature |-> signature])
                    /\ pc' = "postResolution_post"
                    /\ calls' = Start(Done(calls), "post", cur)
                    /\ UNCHANGED <<skipped, cur, outcome, error, caught>>
    /\ UNCHANGED <<privateKey, leaderboardSnapshot, markets, blockTimestamp,
                   processed, resolution, oracleAddress, signature, summary,
                   resolutions, signatures, confirmed, idCalls, notReady, dw, others>>

\* PostResolution_post that does not await tx.wait()
PostResolution_post_nowait ==
    /\ pc = "postResolution_post"
    /\ \/ /\ calls' = Start(Done(calls), "wait", cur)
          /\ processed' = processed + 1
          /\ outcome' = [outcome EXCEPT ![cur] = "RESOLVED"]
          /\ cur' = cur + 1
          /\ pc' = "loop"
          /\ UNCHANGED <<skipped, error, caught>>
       \/ /\ \E msg \in ChainErrors : Catch(msg)
          /\ UNCHANGED processed
    /\ UNCHANGED <<privateKey, cachedContracts, leaderboardSnapshot, markets,
                   blockTimestamp, resolution, oracleAddress, signature,
                   summary, resolutions, signatures, posts, confirmed, idCalls,
                   notReady, dw, others>>

\* await oracle.post(resolutionTuple, signature)
PostResolution_post ==
    /\ pc = "postResolution_post"
    /\ \/ /\ pc' = "postResolution_wait"
          /\ calls' = Start(Done(calls), "wait", cur)
          /\ UNCHANGED <<skipped, cur, outcome, error, caught>>
       \/ \E msg \in ChainErrors : Catch(msg)
    /\ UNCHANGED <<privateKey, cachedContracts, leaderboardSnapshot, markets,
                   blockTimestamp, processed, resolution, oracleAddress,
                   signature, summary, resolutions, signatures, posts,
                   confirmed, idCalls, notReady, dw, others>>

\* PostResolution_wait counting the market before the confirmation is known
PostResolution_wait_lenient ==
    /\ pc = "postResolution_wait"
    /\ processed' = processed + 1
    /\ \/ /\ confirmed' = Append(confirmed, cur)
          /\ outcome' = [outcome EXCEPT ![cur] = "RESOLVED"]
          /\ cur' = cur + 1
          /\ pc' = "loop"
          /\ calls' = Done(calls)
          /\ UNCHANGED <<skipped, error, caught>>
       \/ /\ \E msg \in ChainErrors : Catch(msg)
          /\ UNCHANGED confirmed
    /\ UNCHANGED <<privateKey, cachedContracts, leaderboardSnapshot, markets,
                   blockTimestamp, resolution, oracleAddress, signature,
                   summary, resolutions, signatures, posts, idCalls, notReady, dw, others>>

\* await tx.wait(); postResolution returns and processed++
PostResolution_wait ==
    /\ pc = "postResolution_wait"
    /\ \/ /\ confirmed' = Append(confirmed, cur)
          /\ processed' = processed + 1
          /\ outcome' = [outcome EXCEPT ![cur] = "RESOLVED"]
          /\ cur' = cur + 1
          /\ pc' = "loop"
          /\ calls' = Done(calls)
          /\ UNCHANGED <<skipped, error, caught>>
       \/ /\ \E msg \in ChainErrors : Catch(msg)
          /\ UNCHANGED <<confirmed, processed>>
    /\ UNCHANGED <<privateKey, cachedContracts, leaderboardSnapshot, markets,
                   blockTimestamp, resolution, oracleAddress, signature,
                   summary, resolutions, signatures, posts, idCalls, notReady, dw, others>>

\* ExitStatus of a main that only logs the failure
ExitStatus_zero(threw) == 0

\* main: process.exit(1) in the catch block, a normal end otherwise
ExitStatus(threw) == IF threw THEN 1 ELSE 0

\* main, after await processMarkets() returned or threw
Main ==
    /\ pc \in {"returned", "threw"}
    /\ exitCode = NoExit
    /\ exitCode' = ExitStatus(pc = "threw")
    /\ UNCHANGED <<pc, privateKey, cachedContracts, leaderboardSnapshot, markets,
                   blockTimestamp, cur, processed, skipped, resolution,
                   oracleAddress, signature, error, summary, outcome,
                   resolutions, signatures, posts, confirmed, idCalls,
                   notReady, caught, dw, calls, gc, blobArgs, blobOut>>

Next ==
    \/ LoadLeaderboardSnapshot
    \/ LoadMarkets
    \/ GetBlock
    \/ LoopHead
    \/ ComputeMarketId_getContracts
    \/ ComputeMarketId_call
    \/ CreateResolution_getContracts
    \/ CreateResolution_sign
    \/ PostResolution_getContracts
    \/ PostResolution_post
    \/ PostResolution_wait
    \/ Main

Spec == Init /\ [][Next]_vars

---------------------------------------------------------------------------
(* Direct calls of determineWinner on bounded inputs *)

\* leaderboards with unique dense ranks 1..n
WinnerBoards == { Board(n, shift) : n \in 1..MaxBoard, shift \in {0, 4} }

WinnerNames == { ProjectName(k) : k \in 1..MaxBoard } \cup { "Ghost" }

WinnerMarkets ==
    { Top10Market(name, 1, "0xq1", "0xm1") : name \in WinnerNames }
        \cup { H2HMarket(a, b, 1, "0xq3", "0xm3") : a \in WinnerNames, b \in WinnerNames }
        \cup { [Top10Market("P1", 1, "0xq1", "0xm1") EXCEPT !.type = "top5"] }

InitWinner ==
    /\ pc = "determineWinner"
    /\ privateKey = "0xkey"
    /\ cachedContracts = LocalContracts
    /\ leaderboardSnapshot \in WinnerBoards
    /\ markets \in { <<m>> : m \in WinnerMarkets }
    /\ blockTimestamp = 0
    /\ cur = 0
    /\ processed = 0
    /\ skipped = 0
    /\ resolution = NoResolution
    /\ oracleAddress = ""
    /\ signature = <<>>
    /\ error = ""
    /\ summary = <<>>
    /\ outcome = <<>>
    /\ resolutions = <<>>
    /\ signatures = <<>>
    /\ posts = <<>>
    /\ confirmed = <<>>
    /\ idCalls = <<>>
    /\ notReady = <<>>
    /\ caught = <<>>
    /\ dw = NoResult
    /\ calls = <<>>
    /\ exitCode = NoExit
    /\ gc = NoTable
    /\ blobArgs = <<>>
    /\ blobOut = <<>>

\* determineWinner(market, randomizedLeaderboard) called on its own
DetermineWinnerCall ==
    /\ pc = "determineWinner"
    /\ dw' = determineWinner(markets[1], leaderboardSnapshot)
    /\ IF dw'.ok
       THEN /\ pc' = "returned"
            /\ error' = error
       ELSE Raise(dw'.message)
    /\ UNCHANGED <<privateKey, cachedContracts, leaderboardSnapshot, markets,
                   blockTimestamp, cur, processed, skipped, resolution,
                   oracleAddress, signature, summary, outcome, resolutions,
                   signatures, posts, confirmed, idCalls, notReady, caught, calls,
                   others>>

NextWinner == DetermineWinnerCall

SpecWinner == InitWinner /\ [][NextWinner]_vars

---------------------------------------------------------------------------
(* Direct calls of createResolution (it is exported) *)

\* the market definitions of the pool, with and without a marketId
CreateMarkets ==
    { [m EXCEPT !.marketId = id] : m \in MarketPool, id \in {"", "0xm0"} }

InitCreate ==
    /\ pc = "createResolution"
    /\ privateKey \in {"", "0xkey"}
    /\ cachedContracts = LocalContracts
    /\ leaderboardSnapshot \in Snapshots
    /\ markets \in { <<m>> : m \in CreateMarkets }
    /\ blockTimestamp \in ChainTimes
    /\ cur = 1
    /\ processed = 0
    /\ skipped = 0
    /\ resolution = NoResolution
    /\ oracleAddress = ""
    /\ signature = <<>>
    /\ error = ""
    /\ summary = <<>>
    /\ outcome = <<>>
    /\ resolutions = <<>>
    /\ signatures = <<>>
    /\ posts = <<>>
    /\ confirmed = <<>>
    /\ idCalls = <<>>
    /\ notReady = <<>>
    /\ caught = <<>>
    /\ dw = NoResult
    /\ calls = <<>>
    /\ exitCode = NoExit
    /\ gc = NoTable
    /\ blobArgs = <<>>
    /\ blobOut = <<>>

\* createResolution(market, randomizedLeaderboard, blockTimestamp) up to its
\* await getContracts(); an error goes to the caller
CreateResolution_enter ==
    /\ pc = "createResolution"
    /\ LET m == markets[1]
       IN  IF MarketIdMissing(m)
           THEN /\ Raise(MarketIdNotSet(m))
                /\ UNCHANGED <<dw, resolution, resolutions, calls>>
           ELSE LET r == determineWinner(m, leaderboardSnapshot)
                IN  /\ dw' = r
                    /\ IF ~r.ok
                       THEN /\ Raise(r.message)
                            /\ UNCHANGED <<resolution, resolutions, calls>>
                       ELSE LET res == BuildResolution(m, r, blockTimestamp)
                            IN  /\ resolution' = res
                                /\ resolutions' = Append(resolutions,
                                                         [market |-> 1, resolution |-> res])
                                /\ IF privateKey = ""
                                   THEN /\ Raise(PrivateKeyNotSet)
                                        /\ UNCHANGED calls
                                   ELSE /\ pc' = "createResolution_direct_getContracts"
                                        /\ calls' = Start(calls, "getContracts", 1)
                                        /\ error' = error
    /\ UNCHANGED <<privateKey, cachedContracts, leaderboardSnapshot, markets,
                   blockTimestamp, cur, processed, skipped, oracleAddress,
                   signature, summary, outcome, signatures, posts, confirmed,
                   idCalls, notReady, caught, others>>

\* createResolution called directly: await getContracts(), generateBlobHash
CreateResolution_direct_getContracts ==
    /\ pc = "createResolution_direct_getContracts"
    /\ \E f \in FetchOutcomes :
        LET contracts == getContracts(cachedContracts, f)
        IN  /\ cachedContracts' = contracts
            /\ IF contracts = NullContracts
               THEN /\ Raise(ContractsNotConfigured)
                    /\ calls' = Done(calls)
                    /\ UNCHANGED oracleAddress
               ELSE /\ oracleAddress' = contracts.settlementOracle
                    /\ pc' = "createResolution_direct_sign"
                    /\ calls' = Start(Done(calls), "signMessage", 1)
                    /\ error' = error
    /\ UNCHANGED <<privateKey, leaderboardSnapshot, markets, blockTimestamp,
                   cur, processed, skipped, resolution, signature, summary,
                   outcome, resolutions, signatures, posts, confirmed, idCalls,
                   notReady, caught, dw, others>>

\* createResolution called directly: await signer.signMessage(blob), return
CreateResolution_direct_sign ==
    /\ pc = "createResolution_direct_sign"
    /\ LET blob == generateBlobHash(resolution.marketId, resolution.winner,
                                    resolution.snapshotHash, resolution.resolvedAt,
                                    resolution.challengeUntil, resolution.nonce,
                                    oracleAddress)
           sig == signMessage(privateKey, blob)
       IN  /\ signature' = sig
           /\ signatures' = Append(signatures, [market |-> 1, blob |-> blob,
                                                oracle |-> oracleAddress,
                                                signature |-> sig])
    /\ pc' = "returned"
    /\ calls' = Done(calls)
    /\ UNCHANGED <<privateKey, cachedContracts, leaderboardSnapshot, markets,
                   blockTimestamp, cur, processed, skipped, resolution,
                   oracleAddress, error, summary, outcome, resolutions, posts,
                   confirmed, idCalls, notReady, caught, dw, others>>

\* runs of processMarkets and direct calls of createResolution
InitCreateOrRun == Init \/ InitCreate

NextCreateOrRun ==
    \/ Next
    \/ CreateResolution_enter
    \/ CreateResolution_direct_getContracts
    \/ CreateResolution_direct_sign

SpecCreate == InitCreateOrRun /\ [][NextCreateOrRun]_vars

---------------------------------------------------------------------------
(* Direct calls of generateBlobHash, and the verifying contract's digest *)

\* the schema string the verifying contract hashes into its type hash
ContractTypeString ==
    "Resolve(bytes32 marketId,uint8 winner,bytes32 snapshotHash,uint64 resolvedAt,uint64 challengeUntil,uint256 nonce,address this)"

\* the digest the verifying contract at address self recomputes from the
\* submitted fields: keccak256(abi.encode(typeHash, marketId, winner,
\* snapshotHash, resolvedAt, challengeUntil, nonce, address(this)))
ContractBlobHash(r, self) ==
    keccak256(AbiEncode(<<keccak256(ContractTypeString), r.marketId, r.winner,
                          r.snapshotHash, r.resolvedAt, r.challengeUntil,
                          r.nonce, self>>))

\* argument lists of generateBlobHash
BlobArgs ==
    [marketId : {"0xm1", "0xm2"},
     winner : {1, 2},
     snapshotHash : {keccak256("[a]"), keccak256("[b]")},
     resolvedAt : 1..MaxChainTime,
     challengeUntil : {0, 1},
     nonce : 1..MaxChainTime,
     oracle : {"0xO1", "0xO2"}]

InitBlob ==
    /\ pc = "generateBlobHash"
    /\ privateKey = "0xkey"
    /\ cachedContracts = LocalContracts
    /\ leaderboardSnapshot = <<>>
    /\ markets = <<>>
    /\ blockTimestamp = 0
    /\ cur = 0
    /\ processed = 0
    /\ skipped = 0
    /\ resolution = NoResolution
    /\ oracleAddress = ""
    /\ signature = <<>>
    /\ error = ""
    /\ summary = <<>>
    /\ outcome = <<>>
    /\ resolutions = <<>>
    /\ signatures = <<>>
    /\ posts = <<>>
    /\ confirmed = <<>>
    /\ idCalls = <<>>
    /\ notReady = <<>>
    /\ caught = <<>>
    /\ dw = NoResult
    /\ calls = <<>>
    /\ exitCode = NoExit
    /\ gc = NoTable
    /\ blobArgs \in [a : BlobArgs, b : BlobArgs]
    /\ blobOut = <<>>

\* generateBlobHash called on the list a twice and on the list b once
GenerateBlobHashCall ==
    /\ pc = "generateBlobHash"
    /\ LET Digest(x) == generateBlobHash(x.marketId, x.winner, x.snapshotHash,
                                         x.resolvedAt, x.challengeUntil,
                                         x.nonce, x.oracle)
       IN  blobOut' = [a |-> Digest(blobArgs.a), again |-> Digest(blobArgs.a),
                       b |-> Digest(blobArgs.b)]
    /\ pc' = "returned"
    /\ UNCHANGED <<privateKey, cachedContracts, leaderboardSnapshot, markets,
                   blockTimestamp, cur, processed, skipped, resolution,
                   oracleAddress, signature, error, summary, outcome,
                   resolutions, signatures, posts, confirmed, idCalls,
                   notReady, caught, dw, calls, exitCode, gc, blobArgs>>

NextBlob == GenerateBlobHashCall

SpecBlob == InitBlob /\ [][NextBlob]_vars

---------------------------------------------------------------------------
(* Direct calls of getContracts (it is exported) *)

\* number of getContracts calls of one process
MaxCalls == 3

\* contents of config/contracts.json: complete, empty, or partly filled in
LocalTables == { LocalContracts, Table("", "", ""), Table("0xO1", "", "0xS1") }

\* bodies of /api/contracts: empty, one role, all roles, a role without address
ConfigResponses ==
    { <<>>,
      <<[type |-> "settlementOracle", address |-> "0xO2"]>>,
      <<[type |-> "marketFactory", address |-> "0xF2"]>>,
      <<[type |-> "settlementOracle", address |-> "0xO2"],
        [type |-> "marketFactory", address |-> "0xF2"],
        [type |-> "stakeToken", address |-> "0xS2"]>>,
      <<[type |-> "stakeToken", address |-> ""]>>,
      <<[type |-> "settlementOracle", address |-> "0xO3"],
        [type |-> "stakeToken", address |-> ""]>> }

\* every entry of the body has an address
WellFormed(data) == \A n \in 1..Len(data) : data[n].address # ""

RECURSIVE ApplySupplied(_, _)
\* per role, the last address the remote bodies supplied so far
ApplySupplied(latest, data) ==
    IF Len(data) = 0 THEN latest
    ELSE LET entry == Head(data)
             known == entry.type \in {"settlementOracle", "marketFactory", "stakeToken"}
         IN  ApplySupplied(IF known /\ entry.address # ""
                           THEN [latest EXCEPT ![entry.type] = entry.address]
                           ELSE latest,
                           Tail(data))

\* fetch rejects, answers not OK, answers OK with a body
ConfigFetchOutcomes ==
    { [kind |-> "throw", data |-> <<>>], [kind |-> "notok", data |-> <<>>] }
        \cup { [kind |-> "ok", data |-> d] : d \in ConfigResponses }

InitConfig ==
    /\ pc = "getContracts"
    /\ privateKey = "0xkey"
    /\ cachedContracts \in LocalTables
    /\ leaderboardSnapshot = <<>>
    /\ markets = <<>>
    /\ blockTimestamp = 0
    /\ cur = 0
    /\ processed = 0
    /\ skipped = 0
    /\ resolution = NoResolution
    /\ oracleAddress = ""
    /\ signature = <<>>
    /\ error = ""
    /\ summary = <<>>
    /\ outcome = <<>>
    /\ resolutions = <<>>
    /\ signatures = <<>>
    /\ posts = <<>>
    /\ confirmed = <<>>
    /\ idCalls = <<>>
    /\ notReady = <<>>
    /\ caught = <<>>
    /\ dw = NoResult
    /\ calls = <<>>
    /\ exitCode = NoExit
    /\ gc = NoTable
    /\ blobArgs = <<>>
    /\ blobOut = <<>>

\* one await getContracts(): the fetch ends as f, the cache is updated, the
\* cache is returned or "Contract addresses not configured" is thrown
GetContractsCall ==
    /\ pc = "getContracts"
    /\ Len(calls) < MaxCalls
    /\ \E f \in ConfigFetchOutcomes :
        LET contracts == getContracts(cachedContracts, f)
            local == IF gc = NoTable THEN cachedContracts ELSE gc.local
            refreshes == (IF gc = NoTable THEN 0 ELSE gc.refreshes)
                            + (IF contracts # cachedContracts THEN 1 ELSE 0)
            supplied == ApplySupplied(IF gc = NoTable THEN cachedContracts
                                      ELSE gc.supplied, f.data)
            wellformed == (gc = NoTable \/ gc.wellformed) /\ WellFormed(f.data)
        IN  /\ cachedContracts' = contracts
            /\ gc' = [ok |-> contracts # NullContracts,
                      table |-> contracts,
                      message |-> IF contracts = NullContracts
                                  THEN ContractsNotConfigured ELSE "",
                      fetch |-> f,
                      before |-> cachedContracts,
                      local |-> local,
                      refreshes |-> refreshes,
                      supplied |-> supplied,
                      wellformed |-> wellformed]
    /\ calls' = Append(calls, [Call("getContracts", 0) EXCEPT !.done = TRUE])
    /\ UNCHANGED <<pc, privateKey, leaderboardSnapshot, markets, blockTimestamp,
                   cur, processed, skipped, resolution, oracleAddress,
                   signature, error, summary, outcome, resolutions,
                   signatures, posts, confirmed, idCalls, notReady, caught,
                   dw, exitCode, blobArgs, blobOut>>

NextConfig == GetContractsCall

SpecConfig == InitConfig /\ [][NextConfig]_vars

---------------------------------------------------------------------------
(* Direct calls of determineWinner on leaderboards with tied ranks *)

\* Board(n, 0) with the entry after position t sharing the rank of entry t
TiedBoard(n, t) ==
    [p \in 1..n |-> IF p = t + 1 THEN [Board(n, 0)[p] EXCEPT !.rank = t]
                    ELSE Board(n, 0)[p]]

\* leaderboards with one tie, and the leaderboards without a tie
TieBoards ==
    { TiedBoard(n, t) : n \in 2..MaxBoard, t \in 1..(MaxBoard - 1) }
        \cup { Board(n, 0) : n \in 1..MaxBoard }

\* head-to-head markets over all pairs of names, the two equal included
TieMarkets == { H2HMarket(a, b, 1, "0xq3", "0xm3") : a \in WinnerNames, b \in WinnerNames }

InitTie ==
    /\ pc = "determineWinner"
    /\ privateKey = "0xkey"
    /\ cachedContracts = LocalContracts
    /\ leaderboardSnapshot \in TieBoards
    /\ markets \in { <<m>> : m \in TieMarkets }
    /\ blockTimestamp = 0
    /\ cur = 0
    /\ processed = 0
    /\ skipped = 0
    /\ resolution = NoResolution
    /\ oracleAddress = ""
    /\ signature = <<>>
    /\ error = ""
    /\ summary = <<>>
    /\ outcome = <<>>
    /\ resolutions = <<>>
    /\ signatures = <<>>
    /\ posts = <<>>
    /\ confirmed = <<>>
    /\ idCalls = <<>>
    /\ notReady = <<>>
    /\ caught = <<>>
    /\ dw = NoResult
    /\ calls = <<>>
    /\ exitCode = NoExit
    /\ gc = NoTable
    /\ blobArgs = <<>>
    /\ blobOut = <<>>

NextTie == DetermineWinnerCall

SpecTie == InitTie /\ [][NextTie]_vars

---------------------------------------------------------------------------
(* Vocabulary of the properties *)

Range(seq) == { seq[n] : n \in 1..Len(seq) }

\* the entries of a log that belong to market k
LogOf(log, k) == { n \in 1..Len(log) : log[n].market = k }

HasName(lb, name) == \E k \in 1..Len(lb) : lb[k].name = name

RankOf(lb, name) == lb[CHOOSE k \in 1..Len(lb) : lb[k].name = name].rank

UniqueDenseRanks(lb) ==
    /\ \A r \in 1..Len(lb) : Cardinality({ k \in 1..Len(lb) : lb[k].rank = r }) = 1
    /\ \A j, k \in 1..Len(lb) : lb[j].name = lb[k].name => j = k

\* the subject (or one of the two subjects) of the market is not in the snapshot
SubjectAbsent(m, lb) ==
    IF m.type = "top10" THEN ~HasName(lb, m.projectName)
    ELSE ~HasName(lb, m.projectA) \/ ~HasName(lb, m.projectB)

\* the run is over
Ended == pc \in {"returned", "threw"}

\* the loop iteration of market k is over
Visited(k) == cur > k \/ (cur = k /\ pc = "threw")

\* market k passed the time gate
PassedGate(k) == Visited(k) /\ blockTimestamp >= markets[k].resolveTime

---------------------------------------------------------------------------
(* Properties *)

\* C1: when processing of a ready market raises an error, the market ends
\* FAILED (SKIPPED when the error is time-shaped) and every later market of
\* the list is still processed: no run ends with a market left unvisited
\* behind a market that raised.
C1_FailureNeverAbortsBatch ==
    \A k \in 1..Len(caught) :
        caught[k] # "" =>
            /\ ~Includes(caught[k], "time") => outcome[k] = "FAILED"
            /\ Ended => \A j \in (k + 1)..Len(outcome) : outcome[j] # "PENDING"

\* C2: at the gate, a market whose resolveTime is greater than the chain
\* time read at the start is counted as skipped, the resolved count stays,
\* the loop moves on to the next market and never returns to an earlier
\* one; a market whose resolveTime is at most the chain time is not
\* reported as not ready.
C2_TimeGate ==
    [][ /\ cur' >= cur
        /\ (pc = "loop" /\ cur <= Len(markets)) =>
              IF blockTimestamp < markets[cur].resolveTime
              THEN /\ skipped' = skipped + 1
                   /\ processed' = processed
                   /\ outcome'[cur] = "SKIPPED"
                   /\ notReady' = Append(notReady, cur)
                   /\ cur' = cur + 1
                   /\ pc' = "loop"
              ELSE notReady' = notReady ]_vars

\* a market was skipped by the gate and the next one was resolved
C2_Witness ==
    /\ Len(outcome) >= 2
    /\ notReady = <<1>>
    /\ outcome[1] = "SKIPPED"
    /\ outcome[2] = "RESOLVED"
    /\ skipped = 1
    /\ processed = 1

C4_Top10Winner ==
    (/\ pc # "determineWinner"
     /\ markets[1].type = "top10"
     /\ UniqueDenseRanks(leaderboardSnapshot)
     /\ HasName(leaderboardSnapshot, markets[1].projectName)) =>
        /\ dw.ok
        /\ dw.winner = IF RankOf(leaderboardSnapshot, markets[1].projectName) <= 10
                       THEN 1 ELSE 2

\* the subject at rank 10 of a 12-entry snapshot won
C4_Witness ==
    /\ pc = "returned"
    /\ markets[1].type = "top10"
    /\ Len(leaderboardSnapshot) = 12
    /\ HasName(leaderboardSnapshot, markets[1].projectName)
    /\ RankOf(leaderboardSnapshot, markets[1].projectName) = 10
    /\ dw.winner = 1

\* C5: on a snapshot with unique ranks, a head-to-head market whose two
\* distinct subjects are present gets winner 1 exactly when rank(A) < rank(B),
\* and winner 2 otherwise.
C5_H2HWinner ==
    (/\ pc # "determineWinner"
     /\ markets[1].type = "h2h"
     /\ markets[1].projectA # markets[1].projectB
     /\ UniqueDenseRanks(leaderboardSnapshot)
     /\ HasName(leaderboardSnapshot, markets[1].projectA)
     /\ HasName(leaderboardSnapshot, markets[1].projectB)) =>
        /\ dw.ok
        /\ dw.winner = IF RankOf(leaderboardSnapshot, markets[1].projectA)
                            < RankOf(leaderboardSnapshot, markets[1].projectB)
                       THEN 1 ELSE 2

\* subject A at rank 3 beat subject B at rank 7
C5_Witness ==
    /\ pc = "returned"
    /\ markets[1].type = "h2h"
    /\ HasName(leaderboardSnapshot, markets[1].projectA)
    /\ HasName(leaderboardSnapshot, markets[1].projectB)
    /\ RankOf(leaderboardSnapshot, markets[1].projectA) = 3
    /\ RankOf(leaderboardSnapshot, markets[1].projectB) = 7
    /\ dw.winner = 1

\* C6 as stated: every visited market has exactly one Resolution if it
\* passed the time gate and none if it did not, and every Resolution has
\* winner 1 or 2.
C6_OneCommitmentPerReadyMarket ==
    \A k \in 1..Len(markets) :
        /\ Visited(k) =>
              Cardinality(LogOf(resolutions, k))
                  = IF blockTimestamp >= markets[k].resolveTime THEN 1 ELSE 0
        /\ \A n \in LogOf(resolutions, k) : resolutions[n].resolution.winner \in {1, 2}

\* C6 amended: at most one Resolution is built for a market; a visited
\* market has one exactly when it passed the time gate, its marketId is
\* resolved and its subjects are in the snapshot; a market that did not pass
\* the gate has none; every Resolution has winner 1 or 2.
C6_AtMostOneCommitment ==
    \A k \in 1..Len(markets) :
        /\ Cardinality(LogOf(resolutions, k)) <= 1
        /\ (cur >= 1 /\ blockTimestamp < markets[k].resolveTime) =>
              LogOf(resolutions, k) = {}
        /\ Visited(k) =>
              (LogOf(resolutions, k) # {}
                  <=> /\ PassedGate(k)
                      /\ markets[k].marketId # ""
                      /\ ~SubjectAbsent(markets[k], leaderboardSnapshot))
        /\ \A n \in LogOf(resolutions, k) : resolutions[n].resolution.winner \in {1, 2}

\* one ready market ended without a Resolution, another one got its Resolution
C6_Witness ==
    \E j, k \in 1..Len(markets) :
        /\ PassedGate(j)
        /\ LogOf(resolutions, j) = {}
        /\ Visited(k)
        /\ Cardinality(LogOf(resolutions, k)) = 1

\* C7: when the catch block receives an error whose message is time-related,
\* the market is counted as skipped, the resolved count stays, nothing is
\* re-raised and the loop goes on with the next market.
C7_TimeErrorIsSkip ==
    [][ (cur >= 1 /\ caught' # caught /\ Includes(caught'[cur], "time")) =>
            /\ skipped' = skipped + 1
            /\ processed' = processed
            /\ outcome'[cur] = "SKIPPED"
            /\ error' = ""
            /\ cur' = cur + 1
            /\ pc' = "loop" ]_vars

\* the contract rejected a submission as too early, the next market was resolved
C7_Witness ==
    /\ Len(outcome) >= 2
    /\ caught[1] = "execution reverted: resolve time not reached"
    /\ LogOf(posts, 1) # {}
    /\ outcome[1] = "SKIPPED"
    /\ outcome[2] = "RESOLVED"

C9_FatalNeverSkipped ==
    /\ \A k \in 1..Len(caught) :
          (Includes(caught[k], "not found") \/ Includes(caught[k], "Market ID not set"))
              => outcome[k] # "SKIPPED"
    /\ cur >= 1 =>
          skipped = Len(notReady)
                      + Cardinality({ k \in 1..Len(caught) :
                                        /\ caught[k] \in ChainErrors
                                        /\ Includes(caught[k], "time") })

\* C10: every Resolution has challengeUntil 0, nonce equal to resolvedAt, the
\* marketId of its market definition and resolvedAt equal to the block
\* timestamp read at the start of the run, so all Resolutions of a run agree
\* on resolvedAt and nonce; the submitted Resolutions are these.
C10_ResolutionFields ==
    /\ \A n \in 1..Len(resolutions) :
          LET r == resolutions[n].resolution
              k == resolutions[n].market
          IN  /\ r.challengeUntil = 0
              /\ r.nonce = r.resolvedAt
              /\ r.marketId # ""
              /\ r.marketId = markets[k].marketId
              /\ r.resolvedAt = blockTimestamp
              /\ \A m \in 1..Len(resolutions) :
                    /\ resolutions[m].resolution.resolvedAt = r.resolvedAt
                    /\ resolutions[m].resolution.nonce = r.nonce
    /\ \A n \in 1..Len(posts) :
          [market |-> posts[n].market, resolution |-> posts[n].resolution]
              \in Range(resolutions)

\* two markets of one run got their Resolutions, one with a computed marketId
C10_Witness ==
    /\ Len(resolutions) = 2
    /\ resolutions[1].market # resolutions[2].market
    /\ \E n \in 1..2 : LogOf(idCalls, resolutions[n].market) # {}
    /\ blockTimestamp = 2

\* a direct call, not a run of processMarkets
DirectCall == Len(markets) = 1 /\ outcome = <<>>

\* C11: createResolution on a market definition without marketId throws the
\* marketId-not-set error before a winner is computed, a Resolution built,
\* anything signed or any collaborator called; inside processMarkets
\* createResolution only runs for a market whose marketId is set, so that
\* error is never caught there.
C11_MarketIdUnset ==
    /\ (DirectCall /\ pc # "createResolution" /\ markets[1].marketId = "") =>
          /\ pc = "threw"
          /\ error = "Market ID not set for market: " \o markets[1].questionHash
          /\ dw = NoResult
          /\ resolutions = <<>>
          /\ signatures = <<>>
          /\ calls = <<>>
          /\ cachedContracts = LocalContracts
    /\ ~DirectCall =>
          /\ \A k \in 1..Len(caught) : ~Includes(caught[k], "Market ID not set")
          /\ \A n \in 1..Len(resolutions) : markets[resolutions[n].market].marketId # ""
          /\ pc \in {"createResolution_getContracts", "createResolution_sign"}
                => markets[cur].marketId # ""

\* a direct call without marketId threw, whatever the subject
C11_Witness ==
    /\ DirectCall
    /\ markets[1].marketId = ""
    /\ markets[1].projectName = "Ghost"
    /\ pc = "threw"

\* C12: factory.computeMarketId is called for a market at most once in a
\* run, only for a market that passed the time gate and has no marketId; a
\* marketId that is set is never changed, and a marketId is only ever set on
\* the market being processed, by that call.
C12_MarketIdResolvedOnce ==
    [][ /\ \A k \in 1..Len(markets) :
              markets[k].marketId # "" => markets'[k].marketId = markets[k].marketId
        /\ idCalls' # idCalls =>
              /\ Len(idCalls') = Len(idCalls) + 1
              /\ SubSeq(idCalls', 1, Len(idCalls)) = idCalls
              /\ idCalls'[Len(idCalls')].market = cur
              /\ blockTimestamp >= markets[cur].resolveTime
              /\ markets[cur].marketId = ""
              /\ LogOf(idCalls, cur) = {}
        /\ (markets # <<>> /\ markets' # markets) =>
              /\ LogOf(idCalls, cur) # {}
              /\ \A k \in 1..Len(markets) : k # cur => markets'[k] = markets[k] ]_vars

\* one market kept the marketId it came with, another got its id computed;
\* both were resolved
C12_Witness ==
    \E j, k \in 1..Len(outcome) :
        /\ outcome[j] = "RESOLVED"
        /\ markets[j].marketId = "0xm2"
        /\ LogOf(idCalls, j) = {}
        /\ outcome[k] = "RESOLVED"
        /\ Cardinality(LogOf(idCalls, k)) = 1
        /\ markets[k].marketId = "id(0xq1,0)"

\* the awaited calls that have not completed
InFlight == { n \in 1..Len(calls) : ~calls[n].done }

\* C13: the markets are handled one at a time in list order: at most one
\* awaited call is in flight, and it is the one started last; no call is in
\* flight at a loop boundary or after the run; the calls and the submissions
\* follow the order of the list, with at most one submission per market, and
\* every market in front of the current one has ended.
C13_Sequential ==
    /\ Cardinality(InFlight) <= 1
    /\ \A n \in InFlight : n = Len(calls)
    /\ (pc = "loop" \/ Ended) => InFlight = {}
    /\ \A m, n \in 1..Len(calls) : m < n => calls[m].market <= calls[n].market
    /\ \A n \in 1..Len(calls) : calls[n].market <= cur
    /\ \A m, n \in 1..Len(posts) : m < n => posts[m].market < posts[n].market
    /\ \A k \in 1..Len(outcome) :
          Cardinality({ n \in 1..Len(calls) : calls[n].op = "post" /\ calls[n].market = k }) <= 1
    /\ \A k \in 1..Len(outcome) : k < cur => outcome[k] \in {"RESOLVED", "SKIPPED"}

\* the submission of the second market is in flight after the first was confirmed
C13_Witness ==
    /\ pc = "postResolution_post"
    /\ cur = 2
    /\ confirmed = <<1>>
    /\ Len(posts) = 2
    /\ InFlight = {Len(calls)}

\* the number of calls of the operation op
CallsOf(op) == Cardinality({ n \in 1..Len(calls) : calls[n].op = op })

CallsFor(op, k) == { n \in 1..Len(calls) : calls[n].op = op /\ calls[n].market = k }

\* C15: a market is RESOLVED only when its signed commitment was submitted
\* and the wait for the confirmation returned; a market whose submission or
\* confirmation wait failed is not counted: the resolved counter equals the
\* number of confirmed submissions in every state.
C15_ResolvedIffConfirmed ==
    /\ processed = Len(confirmed)
    /\ \A m, n \in 1..Len(confirmed) : m # n => confirmed[m] # confirmed[n]
    /\ \A k \in 1..Len(outcome) :
          /\ outcome[k] = "RESOLVED" <=> k \in Range(confirmed)
          /\ caught[k] # "" => k \notin Range(confirmed)
    /\ \A n \in 1..Len(confirmed) :
          LET k == confirmed[n]
          IN  /\ LogOf(signatures, k) # {}
              /\ LogOf(posts, k) # {}
              /\ \E p \in CallsFor("post", k) : \E w \in CallsFor("wait", k) :
                    p < w /\ calls[p].done /\ calls[w].done

\* the first market was confirmed and counted, the confirmation wait of the
\* second failed and the counter stayed at one
C15_Witness ==
    /\ confirmed = <<1>> /\ processed = 1
    /\ Len(caught) = 2
    /\ cur = 2 /\ caught[2] \in ChainErrors
    /\ CallsFor("wait", 2) # {}
    /\ outcome[2] # "RESOLVED"

\* the fields in which two argument lists of generateBlobHash differ
DiffFields(x, y) == { f \in DOMAIN x : x[f] # y[f] }

\* C16: the digest of generateBlobHash is the hash of the encoding of
\* (typeHash, marketId, winner, snapshotHash, resolvedAt, challengeUntil,
\* nonce, verifying address) in that order, equal to the digest the verifying
\* contract at that address recomputes; the same arguments give the same
\* digest, and arguments that differ in a field give different digests.
C16_BlobDigest ==
    blobOut # <<>> =>
        /\ blobOut.a = ContractBlobHash(blobArgs.a, blobArgs.a.oracle)
        /\ blobOut.b = ContractBlobHash(blobArgs.b, blobArgs.b.oracle)
        /\ blobOut.a = blobOut.again
        /\ blobOut.a = blobOut.b <=> DiffFields(blobArgs.a, blobArgs.b) = {}

\* two calls whose arguments differ in the verifying address alone returned
\* different digests
C16_Witness ==
    /\ blobOut # <<>>
    /\ DiffFields(blobArgs.a, blobArgs.b) = {"oracle"}
    /\ blobOut.a # blobOut.b

\* C17: the exit status is non-zero exactly when processMarkets raised: a
\* failure of one of the loads or of the chain time read in front of the
\* loop, or a per-market error the catch block raised again; a run whose
\* markets all ended resolved or skipped exits with status zero.
C17_ExitStatus ==
    exitCode # NoExit =>
        /\ Ended
        /\ exitCode \in {0, 1}
        /\ exitCode # 0 <=> pc = "threw"
        /\ pc = "threw" =>
              /\ error # ""
              /\ \/ cur = 0
                 \/ /\ cur \in 1..Len(markets)
                    /\ caught[cur] = error
                    /\ ~Includes(error, "time")
        /\ (/\ Len(markets) > 0
            /\ \A k \in 1..Len(outcome) : outcome[k] \in {"RESOLVED", "SKIPPED"})
              => exitCode = 0

\* the second market's error was raised again after the first was resolved,
\* and the process exited with status one
C17_Witness ==
    /\ exitCode = 1
    /\ cur = 2
    /\ outcome = <<"RESOLVED", "FAILED">>
    /\ error = caught[2]

\* the remote body names every role with an address
CompleteBody(data) ==
    \A role \in {"settlementOracle", "marketFactory", "stakeToken"} :
        \E n \in 1..Len(data) : data[n].type = role /\ data[n].address # ""

\* C18: getContracts returns the addresses of the remote API when the API
\* answers with them; when the fetch raises or answers not OK the call does
\* not raise, leaves the cached table as it was and returns it, which is the
\* local fallback as long as no refresh has changed the cache.
C18_FallbackOnFetchFailure ==
    gc # NoTable =>
        /\ gc.fetch.kind # "ok" =>
              /\ gc.ok
              /\ gc.table = gc.before
              /\ cachedContracts = gc.before
        /\ gc.refreshes = 0 => gc.table = gc.local
        /\ (gc.fetch.kind = "ok" /\ CompleteBody(gc.fetch.data)) =>
              /\ gc.ok
              /\ \A n \in 1..Len(gc.fetch.data) :
                    gc.table[gc.fetch.data[n].type] = gc.fetch.data[n].address

\* after a refresh replaced the local table, a call whose fetch was rejected
\* returned the refreshed table
C18_Witness ==
    /\ gc # NoTable
    /\ gc.fetch.kind = "throw"
    /\ gc.refreshes = 1
    /\ gc.table = Table("0xO2", "0xF2", "0xS2")
    /\ gc.local = LocalContracts

\* C19: every commitment is submitted to the settlement-oracle address that
\* went into its signed blob digest, with the field values that were signed:
\* the contract at the address of the submission recomputes the digest the
\* signature covers.
C19_SignedForSubmitAddress ==
    \A n \in 1..Len(posts) :
        \E s \in LogOf(signatures, posts[n].market) :
            /\ signatures[s].signature = posts[n].signature
            /\ signatures[s].oracle = posts[n].to
            /\ signatures[s].blob = ContractBlobHash(posts[n].resolution, posts[n].to)

\* market k was visited while the chain time was below its resolve time
GateSkipped(k) == Visited(k) /\ blockTimestamp < markets[k].resolveTime

\* C20: the step that skips a market at the time gate changes nothing but
\* the skip counter and the position in the list, and a market skipped there
\* has no marketId resolution, no address lookup, no winner computation, no
\* signature and no submission; its definition, marketId included, is the
\* one that was loaded, and it is not among the resolved markets.
C20_GateSkipNoSideEffect ==
    /\ [](\A k \in 1..Len(markets) :
            GateSkipped(k) =>
                /\ outcome[k] = "SKIPPED"
                /\ caught[k] = ""
                /\ \A n \in 1..Len(calls) : calls[n].market # k
                /\ LogOf(idCalls, k) = {}
                /\ LogOf(resolutions, k) = {}
                /\ LogOf(signatures, k) = {}
                /\ LogOf(posts, k) = {}
                /\ k \notin Range(confirmed)
                /\ markets[k] \in MarketPool)
    /\ [][ (/\ pc = "loop"
            /\ cur \in 1..Len(markets)
            /\ blockTimestamp < markets[cur].resolveTime)
           => /\ cur' = cur + 1
              /\ skipped' = skipped + 1
              /\ UNCHANGED <<markets, processed, cachedContracts, dw,
                             resolution, resolutions, oracleAddress, signature,
                             signatures, posts, confirmed, idCalls, calls,
                             caught, error>> ]_vars

\* a market without marketId was skipped at the gate and the market after it
\* was resolved
C20_Witness ==
    /\ outcome = <<"SKIPPED", "RESOLVED">>
    /\ GateSkipped(1)
    /\ NeedsMarketId(markets[1])
    /\ processed = 1 /\ skipped = 1

\* the markets whose iteration ended with the outcome v
WithOutcome(v) == { k \in 1..Len(outcome) : outcome[k] = v }

\* C21: at every loop boundary of processMarkets the two counters add up to
\* the number of markets visited so far, every visited market being counted
\* in exactly one of them; when the summary is reported the two counters add
\* up to the length of the market list.
C21_CountersCoverVisited ==
    /\ pc = "loop" =>
          /\ cur \in 1..(Len(markets) + 1)
          /\ processed + skipped = cur - 1
          /\ \A k \in 1..(cur - 1) : outcome[k] \in {"RESOLVED", "SKIPPED"}
          /\ processed = Cardinality(WithOutcome("RESOLVED"))
          /\ skipped = Cardinality(WithOutcome("SKIPPED"))
    /\ summary # <<>> =>
          /\ pc = "returned"
          /\ summary = <<processed, skipped>>
          /\ summary[1] + summary[2] = Len(markets)
          /\ WithOutcome("RESOLVED") \cup WithOutcome("SKIPPED") = 1..Len(markets)

\* the summary of a run of two markets: one resolved, and one skipped by the
\* catch block for a time-related rejection of the chain
C21_Witness ==
    /\ summary = <<1, 1>>
    /\ \E k \in 1..Len(caught) : caught[k] = "execution reverted: resolve time not reached"

\* C22: for a head-to-head market whose two subjects are found with the
\* same rank (two entries of a snapshot with a tied rank, or one entry named
\* twice), determineWinner returns winner 2 and raises nothing.
C22_TieGivesTwo ==
    (/\ pc # "determineWinner"
     /\ markets[1].type = "h2h"
     /\ HasName(leaderboardSnapshot, markets[1].projectA)
     /\ HasName(leaderboardSnapshot, markets[1].projectB)
     /\ RankOf(leaderboardSnapshot, markets[1].projectA)
            = RankOf(leaderboardSnapshot, markets[1].projectB)) =>
        /\ pc = "returned"
        /\ error = ""
        /\ dw.ok
        /\ dw.winner = 2
        /\ dw.snapshotHash = hashJson(JSONstringify(leaderboardSnapshot))

\* two different entries with the same rank: subject B was returned
C22_Witness ==
    /\ pc = "returned"
    /\ markets[1].projectA # markets[1].projectB
    /\ HasName(leaderboardSnapshot, markets[1].projectA)
    /\ HasName(leaderboardSnapshot, markets[1].projectB)
    /\ RankOf(leaderboardSnapshot, markets[1].projectA)
            = RankOf(leaderboardSnapshot, markets[1].projectB)
    /\ dw.winner = 2

\* the table names an address for each of the three roles
Complete(t) ==
    /\ t # NullContracts
    /\ t.settlementOracle # "" /\ t.marketFactory # "" /\ t.stakeToken # ""

==========================================================================
